---- MODULE Spec2Model ----
(***************************************************************************)
(* Model of tools/build.py: the rVPNSE unified build system.               *)
(* One run of main(): locate the NDK, resolve the requested target names,  *)
(* build every target with cargo, package desktop targets one by one and   *)
(* the Android / iOS targets as one bundle each, then report.              *)
(***************************************************************************)
EXTENDS Integers, Sequences, FiniteSets, TLC

(***************************************************************************)
(* Bounds of the model.                                                    *)
(***************************************************************************)
\* longest --targets list over all the request names that is explored
MaxTargets == 2

\* longest --targets list of iOS names only that is explored (the merge of a
\* group takes two of its targets, a sibling group a third)
MaxIosTargets == 3

(***************************************************************************)
(* Small helpers on sequences.                                             *)
(***************************************************************************)
Range(s) == { s[k] : k \in 1..Len(s) }

RECURSIVE Filter(_, _)
\* the elements of s that are in the set keep, in the order of s
Filter(s, keep) ==
    IF s = << >> THEN << >>
    ELSE IF Head(s) \in keep THEN << Head(s) >> \o Filter(Tail(s), keep)
         ELSE Filter(Tail(s), keep)

SeqsUpTo(S, n) == UNION { [1..k -> S] : k \in 0..n }

(***************************************************************************)
(* class Platform, class BuildMode, dataclass Target and TARGETS.          *)
(* android_arch = "None" and min_api = 0 stand for Python's None.          *)
(***************************************************************************)
LINUX   == "linux"
MACOS   == "macos"
WINDOWS == "windows"
ANDROID == "android"
IOS     == "ios"

BuildModes == { "debug", "release" }

Target(name, rust_target, platform, arch, android_arch, min_api) ==
    [ name |-> name, rust_target |-> rust_target, platform |-> platform,
      arch |-> arch, android_arch |-> android_arch, min_api |-> min_api ]

TargetNames ==
    { "linux-x64", "macos-x64", "macos-arm64", "windows-x64",
      "android-arm64", "android-arm", "android-x64", "android-x86",
      "ios-arm64", "ios-x64-sim", "ios-arm64-sim" }

TARGETS == [ n \in TargetNames |->
    CASE n = "linux-x64"     -> Target(n, "x86_64-unknown-linux-gnu", LINUX, "x64", "None", 0)
      [] n = "macos-x64"     -> Target(n, "x86_64-apple-darwin", MACOS, "x64", "None", 0)
      [] n = "macos-arm64"   -> Target(n, "aarch64-apple-darwin", MACOS, "arm64", "None", 0)
      [] n = "windows-x64"   -> Target(n, "x86_64-pc-windows-msvc", WINDOWS, "x64", "None", 0)
      [] n = "android-arm64" -> Target(n, "aarch64-linux-android", ANDROID, "arm64", "arm64-v8a", 21)
      [] n = "android-arm"   -> Target(n, "armv7-linux-androideabi", ANDROID, "arm", "armeabi-v7a", 19)
      [] n = "android-x64"   -> Target(n, "x86_64-linux-android", ANDROID, "x64", "x86_64", 21)
      [] n = "android-x86"   -> Target(n, "i686-linux-android", ANDROID, "x86", "x86", 19)
      [] n = "ios-arm64"     -> Target(n, "aarch64-apple-ios", IOS, "arm64", "None", 0)
      [] n = "ios-x64-sim"   -> Target(n, "x86_64-apple-ios", IOS, "x64", "None", 0)
      [] n = "ios-arm64-sim" -> Target(n, "aarch64-apple-ios-sim", IOS, "arm64", "None", 0) ]

\* the names a command line of the explored runs may carry: desktop (tar.gz
\* and zip), two Android architectures, the iOS device and a simulator,
\* and two names that are no keys of TARGETS
RequestNames ==
    { "linux-x64", "windows-x64", "android-arm64", "android-arm",
      "ios-arm64", "ios-x64-sim", "bogus", "linux-arm64" }

\* the names of the explored iOS-only command lines: the device and both
\* simulators
IosNames == { "ios-arm64", "ios-x64-sim", "ios-arm64-sim" }

(***************************************************************************)
(* The host machine as the run finds it.  disk maps a directory to what it *)
(* holds: {} = it does not exist, "exists" = the directory itself,         *)
(* "prebuilt" = toolchains/llvm/prebuilt below it, and the per-host        *)
(* toolchain directories below that.                                       *)
(***************************************************************************)
EnvNdkPath == "env-ndk-path"

\* possible_paths of _find_android_ndk, in its order
possible_paths ==
    << "~/Android/Sdk/ndk/25.2.9519653",
       "~/Library/Android/sdk/ndk/25.2.9519653",
       "/usr/local/android-ndk-r25c",
       "/opt/android-ndk-r25c" >>

NdkDirs == Range(possible_paths) \cup { EnvNdkPath }

Missing    == { }
BareDir    == { "exists" }
PrebuiltDir == { "exists", "prebuilt" }
LinuxNdk   == { "exists", "prebuilt", "linux-x86_64" }
DarwinNdk  == { "exists", "prebuilt", "darwin-x86_64" }

NoDisk == [ d \in NdkDirs |-> Missing ]

Host(system, env, disk, cargo, docs) ==
    [ system |-> system, env |-> env, disk |-> disk, cargo |-> cargo,
      header |-> docs, readme |-> docs ]

\* the hosts of the explored runs: no NDK at all; ANDROID_NDK_ROOT naming a
\* directory that exists but holds no toolchain; a complete NDK at a
\* conventional place behind a stale one (there without include/rvpnse.h and
\* README.md); the first of them also without cargo
PlainHost == Host("linux", "unset", NoDisk, TRUE, TRUE)

Hosts ==
    { PlainHost, Host("linux", "unset", NoDisk, FALSE, TRUE) }
    \cup { Host("linux", EnvNdkPath, [ NoDisk EXCEPT ![EnvNdkPath] = BareDir ], TRUE, TRUE) }
    \cup { Host("linux", "unset",
                [ NoDisk EXCEPT ![possible_paths[1]] = BareDir,
                                ![possible_paths[4]] = LinuxNdk ], TRUE, FALSE) }

PathExists(h, d) == "exists" \in h.disk[d]

\* (path / "toolchains" / "llvm" / "prebuilt").exists()
PrebuiltExists(h, d) == "prebuilt" \in h.disk[d]

RECURSIVE FirstConventional(_, _)
FirstConventional(h, k) ==
    IF k > Len(possible_paths) THEN "None"
    ELSE IF PathExists(h, possible_paths[k]) /\ PrebuiltExists(h, possible_paths[k])
         THEN possible_paths[k]
         ELSE FirstConventional(h, k + 1)

\* _find_android_ndk: the environment variable first, then the common places
FindAndroidNdk(h) ==
    IF h.env # "unset" /\ PathExists(h, h.env) THEN h.env
    ELSE FirstConventional(h, 1)

\* toolchain_dir.exists() in _setup_android_environment
ToolchainDirExists(h, ndk) ==
    IF h.system = "darwin" THEN "darwin-x86_64" \in h.disk[ndk]
    ELSE "linux-x86_64" \in h.disk[ndk]

(***************************************************************************)
(* File names.  A name is its dot-free base (a sequence of pieces, as the  *)
(* f-strings compose it) and its suffixes.                                 *)
(***************************************************************************)
FileName(base, exts) == [ base |-> base, exts |-> exts ]

\* Path.with_suffix(""): drops the last suffix, if there is one
WithSuffixEmpty(p) ==
    IF p.exts = << >> THEN p
    ELSE FileName(p.base, SubSeq(p.exts, 1, Len(p.exts) - 1))

\* the file shutil.make_archive(base_name, format, ...) writes
ArchiveFileName(base_name, format) ==
    FileName(base_name.base,
             base_name.exts \o (IF format = "zip" THEN << "zip" >> ELSE << "tar", "gz" >>))

(***************************************************************************)
(* The state.                                                              *)
(***************************************************************************)
VARIABLES
    pc,               \* where the run is
    host,             \* the machine, fixed for the run
    mode,             \* self.mode
    target_names,     \* targets_to_build, the argument of build()
    android_ndk_root, \* self.android_ndk_root
    buildFS,          \* the files below self.build_dir (target/)
    distFS,           \* the entries of self.output_dir (dist/)
    results,          \* results of build()
    android_targets,  \* android_targets of build()
    ios_targets,      \* ios_targets of build()
    idx,              \* position of the for loop over target_names
    trace,            \* what the run did, in order
    exit_code         \* the status main() hands to sys.exit

vars == << pc, host, mode, target_names, android_ndk_root, buildFS, distFS,
           results, android_targets, ios_targets, idx, trace, exit_code >>

(***************************************************************************)
(* target/: the build tree.  An entry is a file                            *)
(* target/<triple>/<mode>/<file>; by = 0 says a previous run wrote it,     *)
(* by = k that the k-th cargo invocation of this run did.                  *)
(***************************************************************************)
BuildFile(triple, mode_dir, file, by) ==
    [ triple |-> triple, mode |-> mode_dir, file |-> file, by |-> by ]

\* lib_path.exists()
LibExists(fs, triple, mode_dir, file) ==
    \E e \in fs : e.triple = triple /\ e.mode = mode_dir /\ e.file = file

\* the file at lib_path (lib_path.exists() holds where this is used)
LibAt(fs, triple, mode_dir, file) ==
    CHOOSE e \in fs : e.triple = triple /\ e.mode = mode_dir /\ e.file = file

\* shutil.rmtree(target_dir), target_dir = build_dir / target.rust_target
RmTargetDir(fs, triple) == { e \in fs : e.triple # triple }

\* _get_library_name
GetLibraryName(target) ==
    IF target.platform = WINDOWS THEN "rvpnse.dll"
    ELSE IF target.platform \in { MACOS, IOS } THEN "librvpnse.dylib"
    ELSE "librvpnse.so"

\* cmd of _build_target
BuildCmd(target, m) ==
    << "cargo", "build", "--target", target.rust_target >>
        \o (IF m = "release" THEN << "--release" >> ELSE << >>)

(***************************************************************************)
(* cargo, the external build tool: it exits with some status and either    *)
(* writes the cdylib of the triple it was given, below the directory of    *)
(* the profile it was given, or writes nothing.                            *)
(***************************************************************************)
CdylibName(triple) ==
    IF triple \in { "x86_64-pc-windows-msvc" } THEN "rvpnse.dll"
    ELSE IF triple \in { "x86_64-apple-darwin", "aarch64-apple-darwin",
                         "aarch64-apple-ios", "x86_64-apple-ios",
                         "aarch64-apple-ios-sim" } THEN "librvpnse.dylib"
    ELSE "librvpnse.so"

CargoWrites(cmd, wrote, seqno) ==
    IF wrote
    THEN { BuildFile(cmd[4],
                     IF "--release" \in Range(cmd) THEN "release" ELSE "debug",
                     CdylibName(cmd[4]), seqno) }
    ELSE { }

\* what a previous run may have left in target/: the artifact of every
\* target of names that is in the registry, in both modes
StaleBuildFS(names) ==
    { BuildFile(TARGETS[n].rust_target, m, GetLibraryName(TARGETS[n]), 0) :
        n \in Range(names) \cap TargetNames, m \in BuildModes }

(***************************************************************************)
(* dist/: the output directory.  An entry is a file or a directory with    *)
(* its members; a member is a file below the entry, with the build files   *)
(* it was made from.  by = "previous" marks what an earlier run left.      *)
(***************************************************************************)
Entry(name, kind, by, content) ==
    [ name |-> name, kind |-> kind, by |-> by, content |-> content ]

Member(dir, file, from) == [ dir |-> dir, file |-> file, from |-> from ]

Named(fs, name) == { e \in fs : e.name = name }

\* path.exists() below the output directory
DistExists(fs, name) == Named(fs, name) # { }

\* mkdir(parents=True, exist_ok=True): an existing directory is kept as it is
Mkdir(fs, name) ==
    IF DistExists(fs, name) THEN fs
    ELSE fs \cup { Entry(name, "dir", "run", { }) }

\* a copy or a write below the directory name
AddMembers(fs, name, members) ==
    { IF e.name = name THEN [ e EXCEPT !.content = e.content \cup members ] ELSE e :
        e \in fs }

DirContent(fs, name) == UNION { e.content : e \in Named(fs, name) }

\* shutil.make_archive(base_name, format, root_dir): writes the archive of
\* root_dir next to it, replacing a file of the same name
MakeArchive(fs, base_name, format, root_dir) ==
    { e \in fs : e.name # ArchiveFileName(base_name, format) }
        \cup { Entry(ArchiveFileName(base_name, format), "file", "run",
                     DirContent(fs, root_dir)) }

\* shutil.rmtree of a directory of the output directory
Rmtree(fs, name) == { e \in fs : e.name # name }

\* what a previous run may have left in dist/: an archive, and the staging
\* and bundle directories of a run that died while packaging
StaleDistFS ==
    { Entry(FileName(<< "rvpnse-", "macos-x64" >>, << "tar", "gz" >>), "file", "previous", { }),
      Entry(FileName(<< "rvpnse-", "linux-x64" >>, << >>), "dir", "previous", { }),
      Entry(FileName(<< "rvpnse-", "ios" >>, << >>), "dir", "previous", { }) }

\* the header and the documentation copied into a package, when they exist
HeaderAndReadme(h) ==
    (IF h.header THEN { Member(".", "rvpnse.h", << >>) } ELSE { })
        \cup (IF h.readme THEN { Member(".", "README.md", << >>) } ELSE { })

\* _package_target: the package directory, the copies, the archive, the cleanup
PackageDir(target) == FileName(<< "rvpnse-", target.name >>, << >>)

DesktopArchivePath(target) ==
    IF target.platform = WINDOWS
    THEN FileName(<< "rvpnse-", target.name >>, << "zip" >>)
    ELSE FileName(<< "rvpnse-", target.name >>, << "tar", "gz" >>)

DesktopArchiveBase(target) ==
    IF target.platform = WINDOWS
    THEN WithSuffixEmpty(DesktopArchivePath(target))
    ELSE WithSuffixEmpty(WithSuffixEmpty(DesktopArchivePath(target)))

DesktopFormat(target) == IF target.platform = WINDOWS THEN "zip" ELSE "gztar"

\* a packaging that leaves its staging directory
PackageNoCleanup(fs, target) == fs

PackageCleanup(fs, target) == Rmtree(fs, PackageDir(target))

PackageTarget(fs, bfs, h, m, target) ==
    IF ~LibExists(bfs, target.rust_target, m, GetLibraryName(target)) THEN fs
    ELSE LET lib      == LibAt(bfs, target.rust_target, m, GetLibraryName(target))
             staged   == AddMembers(Mkdir(fs, PackageDir(target)), PackageDir(target),
                                    { Member(".", lib.file, << lib >>) } \cup HeaderAndReadme(h))
             archived == MakeArchive(staged, DesktopArchiveBase(target),
                                     DesktopFormat(target), PackageDir(target))
         IN  PackageCleanup(archived, target)

(***************************************************************************)
(* _package_android_bundle: one jniLibs tree for all Android targets.      *)
(***************************************************************************)
AndroidBundleDir == FileName(<< "rvpnse-", "android" >>, << >>)

AndroidArchivePath == FileName(<< "rvpnse-", "android" >>, << "tar", "gz" >>)

\* the libraries copied to jniLibs/<android_arch>/librvpnse.so
AndroidLibs(bfs, m, targets) ==
    { Member(t.android_arch, "librvpnse.so",
             << LibAt(bfs, t.rust_target, m, "librvpnse.so") >>) :
        t \in { u \in Range(targets) : LibExists(bfs, u.rust_target, m, "librvpnse.so") } }

PackageAndroidBundle(fs, bfs, h, m, targets) ==
    LET staged   == AddMembers(Mkdir(fs, AndroidBundleDir), AndroidBundleDir,
                               { Member("jniLibs", ".", << >>) }
                                   \cup AndroidLibs(bfs, m, targets)
                                   \cup HeaderAndReadme(h)
                                   \cup { Member(".", "install.sh", << >>) })
        archived == MakeArchive(staged, WithSuffixEmpty(WithSuffixEmpty(AndroidArchivePath)),
                                "gztar", AndroidBundleDir)
    IN  Rmtree(archived, AndroidBundleDir)

(***************************************************************************)
(* _package_ios_bundle: a device framework and a simulator framework.      *)
(***************************************************************************)
IosBundleDir == FileName(<< "rvpnse-", "ios" >>, << >>)

IosArchivePath == FileName(<< "rvpnse-", "ios" >>, << "tar", "gz" >>)

DeviceFramework == "rVPNSE-Device.framework"

SimulatorFramework == "rVPNSE-Simulator.framework"

\* a grouping by CPU architecture instead of by triple
IsDeviceTargetByArch(target) == target.arch = "arm64"

\* the test that sends a found library to device_targets
IsDeviceTarget(target) == target.rust_target = "aarch64-apple-ios"

RECURSIVE FoundLibs(_, _, _, _)
\* the libraries of the targets of the wanted group that exist, in list order
FoundLibs(bfs, m, targets, device) ==
    IF targets = << >> THEN << >>
    ELSE LET t    == Head(targets)
             rest == FoundLibs(bfs, m, Tail(targets), device)
         IN  IF LibExists(bfs, t.rust_target, m, "librvpnse.dylib")
                /\ IsDeviceTarget(t) = device
             THEN << LibAt(bfs, t.rust_target, m, "librvpnse.dylib") >> \o rest
             ELSE rest

\* lipo_cmd, as far as its inputs and output go
LipoCmd(framework, libs) == [ op |-> "lipo", output |-> framework, inputs |-> libs ]

\* one group: the framework directory, then the copy or the merge.
\* Gives the members added, the merge invocations made and whether it went on.
FrameworkStep(framework, libs, lipo_ok) ==
    IF libs = << >>
    THEN [ members |-> { }, lipo |-> << >>, ok |-> TRUE ]
    ELSE IF Len(libs) = 1
    THEN [ members |-> { Member(framework, ".", << >>), Member(framework, "rVPNSE", libs) },
           lipo |-> << >>, ok |-> TRUE ]
    ELSE IF lipo_ok
    THEN [ members |-> { Member(framework, ".", << >>), Member(framework, "rVPNSE", libs) },
           lipo |-> << LipoCmd(framework, libs) >>, ok |-> TRUE ]
    ELSE [ members |-> { Member(framework, ".", << >>) },
           lipo |-> << LipoCmd(framework, libs) >>, ok |-> FALSE ]

\* Info.plist, Headers/, the header and module.modulemap of a framework
\* directory that exists
FrameworkMeta(h, members) ==
    UNION { IF Member(f, ".", << >>) \in members
            THEN { Member(f, "Info.plist", << >>), Member(f, "Headers", << >>) }
                 \cup (IF h.header
                       THEN { Member(f, "Headers/rvpnse.h", << >>),
                              Member(f, "Headers/module.modulemap", << >>) }
                       ELSE { })
            ELSE { } : f \in { DeviceFramework, SimulatorFramework } }

\* gives the output directory afterwards, the merge invocations and whether
\* an archive path (TRUE) or None (FALSE) was returned
PackageIosBundle(fs, bfs, h, m, targets, device_lipo_ok, sim_lipo_ok) ==
    LET made       == Mkdir(fs, IosBundleDir)
        device_libs == FoundLibs(bfs, m, targets, TRUE)
        sim_libs   == FoundLibs(bfs, m, targets, FALSE)
        dev        == FrameworkStep(DeviceFramework, device_libs, device_lipo_ok)
        sim        == FrameworkStep(SimulatorFramework, sim_libs, sim_lipo_ok)
    IN  IF device_libs = << >> /\ sim_libs = << >>
        THEN [ fs |-> made, lipo |-> << >>, ret |-> FALSE ]
        ELSE IF ~dev.ok
        THEN [ fs |-> AddMembers(made, IosBundleDir, dev.members),
               lipo |-> dev.lipo, ret |-> FALSE ]
        ELSE IF ~sim.ok
        THEN [ fs |-> AddMembers(made, IosBundleDir, dev.members \cup sim.members),
               lipo |-> dev.lipo \o sim.lipo, ret |-> FALSE ]
        ELSE LET frameworks == dev.members \cup sim.members
                 staged   == AddMembers(made, IosBundleDir,
                                 frameworks
                                     \cup FrameworkMeta(h, DirContent(made, IosBundleDir)
                                                              \cup frameworks)
                                     \cup (IF h.readme THEN { Member(".", "README.md", << >>) }
                                           ELSE { })
                                     \cup { Member(".", "install.sh", << >>) })
                 archived == MakeArchive(staged,
                                 WithSuffixEmpty(WithSuffixEmpty(IosArchivePath)),
                                 "gztar", IosBundleDir)
             IN  [ fs |-> Rmtree(archived, IosBundleDir),
                   lipo |-> dev.lipo \o sim.lipo, ret |-> TRUE ]

(***************************************************************************)
(* Strings as the name mangling of _setup_android_environment sees them: a *)
(* sequence of characters.                                                 *)
(***************************************************************************)
LowerCase ==
    << "a", "b", "c", "d", "e", "f", "g", "h", "i", "j", "k", "l", "m", "n",
       "o", "p", "q", "r", "s", "t", "u", "v", "w", "x", "y", "z" >>

UpperCase ==
    << "A", "B", "C", "D", "E", "F", "G", "H", "I", "J", "K", "L", "M", "N",
       "O", "P", "Q", "R", "S", "T", "U", "V", "W", "X", "Y", "Z" >>

\* the characters of the rust_target strings of TARGETS
Characters(s) ==
    CASE s = "x86_64-unknown-linux-gnu" ->
           << "x", "8", "6", "_", "6", "4", "-", "u", "n", "k", "n", "o",
              "w", "n", "-", "l", "i", "n", "u", "x", "-", "g", "n", "u" >>
      [] s = "x86_64-apple-darwin" ->
           << "x", "8", "6", "_", "6", "4", "-", "a", "p", "p", "l", "e",
              "-", "d", "a", "r", "w", "i", "n" >>
      [] s = "aarch64-apple-darwin" ->
           << "a", "a", "r", "c", "h", "6", "4", "-", "a", "p", "p", "l",
              "e", "-", "d", "a", "r", "w", "i", "n" >>
      [] s = "x86_64-pc-windows-msvc" ->
           << "x", "8", "6", "_", "6", "4", "-", "p", "c", "-", "w", "i",
              "n", "d", "o", "w", "s", "-", "m", "s", "v", "c" >>
      [] s = "aarch64-linux-android" ->
           << "a", "a", "r", "c", "h", "6", "4", "-", "l", "i", "n", "u",
              "x", "-", "a", "n", "d", "r", "o", "i", "d" >>
      [] s = "armv7-linux-androideabi" ->
           << "a", "r", "m", "v", "7", "-", "l", "i", "n", "u", "x", "-",
              "a", "n", "d", "r", "o", "i", "d", "e", "a", "b", "i" >>
      [] s = "x86_64-linux-android" ->
           << "x", "8", "6", "_", "6", "4", "-", "l", "i", "n", "u", "x",
              "-", "a", "n", "d", "r", "o", "i", "d" >>
      [] s = "i686-linux-android" ->
           << "i", "6", "8", "6", "-", "l", "i", "n", "u", "x", "-", "a",
              "n", "d", "r", "o", "i", "d" >>
      [] s = "aarch64-apple-ios" ->
           << "a", "a", "r", "c", "h", "6", "4", "-", "a", "p", "p", "l",
              "e", "-", "i", "o", "s" >>
      [] s = "x86_64-apple-ios" ->
           << "x", "8", "6", "_", "6", "4", "-", "a", "p", "p", "l", "e",
              "-", "i", "o", "s" >>
      [] s = "aarch64-apple-ios-sim" ->
           << "a", "a", "r", "c", "h", "6", "4", "-", "a", "p", "p", "l",
              "e", "-", "i", "o", "s", "-", "s", "i", "m" >>

\* str.upper(): a cased character becomes its uppercase, the others stay
StrUpper(s) ==
    [ k \in 1..Len(s) |->
        IF \E i \in 1..Len(LowerCase) : LowerCase[i] = s[k]
        THEN UpperCase[CHOOSE i \in 1..Len(LowerCase) : LowerCase[i] = s[k]]
        ELSE s[k] ]

\* str.replace(old, new) for one-character old and new
StrReplace(s, old, new) == [ k \in 1..Len(s) |-> IF s[k] = old THEN new ELSE s[k] ]

\* a mangling that keeps the hyphens
TargetUpperKeepHyphen(rust_target) == StrUpper(rust_target)

\* target_upper = target.rust_target.upper().replace("-", "_")
TargetUpper(rust_target) == StrReplace(StrUpper(rust_target), "-", "_")

\* the names of the per-triple variables of env.update
EnvVarNames(target_upper) ==
    [ CC     |-> << "C", "C", "_" >> \o target_upper,
      CXX    |-> << "C", "X", "X", "_" >> \o target_upper,
      AR     |-> << "A", "R", "_" >> \o target_upper,
      LINKER |-> << "C", "A", "R", "G", "O", "_", "T", "A", "R", "G", "E", "T", "_" >>
                     \o target_upper \o << "_", "L", "I", "N", "K", "E", "R" >> ]

(***************************************************************************)
(* _setup_android_environment, as far as the build command sees it: the    *)
(* clang of the triple at the target's API level, below the toolchain      *)
(* directory of the NDK.                                                   *)
(***************************************************************************)
ClangTarget(target) ==
    [ prefix |-> CASE target.rust_target = "aarch64-linux-android"   -> "aarch64-linux-android"
                   [] target.rust_target = "armv7-linux-androideabi" -> "armv7a-linux-androideabi"
                   [] target.rust_target = "x86_64-linux-android"    -> "x86_64-linux-android"
                   [] target.rust_target = "i686-linux-android"      -> "i686-linux-android",
      api |-> target.min_api ]

AndroidEnv(h, ndk, target) ==
    [ ANDROID_NDK_ROOT |-> ndk,
      toolchain |-> IF h.system = "darwin" THEN "darwin-x86_64" ELSE "linux-x86_64",
      triple |-> target.rust_target,
      clang |-> ClangTarget(target),
      names |-> EnvVarNames(TargetUpper(Characters(target.rust_target))) ]

(***************************************************************************)
(* The run.                                                                *)
(***************************************************************************)
NoExit == -1

Init ==
    /\ pc = "main"
    /\ \/ /\ host \in Hosts
          /\ target_names \in SeqsUpTo(RequestNames, MaxTargets)
       \/ /\ host = PlainHost
          /\ target_names \in SeqsUpTo(IosNames, MaxIosTargets)
    /\ mode \in BuildModes
    /\ android_ndk_root = FindAndroidNdk(host)
    /\ \E previous \in BOOLEAN :
          /\ buildFS = IF previous THEN StaleBuildFS(target_names) ELSE { }
          /\ distFS = IF previous THEN StaleDistFS ELSE { }
    /\ results = << >>
    /\ android_targets = << >>
    /\ ios_targets = << >>
    /\ idx = 1
    /\ trace = << >>
    /\ exit_code = NoExit

\* main: no targets to build
MainNoTargets ==
    /\ pc = "main"
    /\ target_names = << >>
    /\ pc' = "exited"
    /\ exit_code' = 1
    /\ UNCHANGED << host, mode, target_names, android_ndk_root, buildFS, distFS,
                    results, android_targets, ios_targets, idx, trace >>

\* main: results = builder.build(targets_to_build)
MainBuild ==
    /\ pc = "main"
    /\ target_names # << >>
    /\ pc' = "setup"
    /\ UNCHANGED << host, mode, target_names, android_ndk_root, buildFS, distFS,
                    results, android_targets, ios_targets, idx, trace, exit_code >>

\* build: _setup_rust_environment fails, build returns {}
SetupNoCargo ==
    /\ pc = "setup"
    /\ ~host.cargo
    /\ pc' = "returned"
    /\ trace' = Append(trace, [ op |-> "cargo_not_found" ])
    /\ UNCHANGED << host, mode, target_names, android_ndk_root, buildFS, distFS,
                    results, android_targets, ios_targets, idx, exit_code >>

\* an output directory that is left as the previous run left it
KeepOutputDir(fs) == fs

\* shutil.rmtree(self.output_dir), then mkdir: the directory is empty
CleanOutputDir(fs) == { }

\* build: _setup_rust_environment succeeds (a failing rustup target add only
\* warns), then the output directory is removed and made again
SetupAndClean ==
    /\ pc = "setup"
    /\ host.cargo
    /\ distFS' = CleanOutputDir(distFS)
    /\ trace' = Append(trace, [ op |-> "clean_output" ])
    /\ pc' = "validate"
    /\ UNCHANGED << host, mode, target_names, android_ndk_root, buildFS,
                    results, android_targets, ios_targets, idx, exit_code >>

\* a validation that reports the first unknown name only
InvalidTargetsFirstOnly(names) ==
    LET all == Filter(names, Range(names) \ DOMAIN TARGETS)
    IN  IF all = << >> THEN << >> ELSE << Head(all) >>

\* invalid_targets of build
InvalidTargets(names) == Filter(names, Range(names) \ DOMAIN TARGETS)

\* build: some name is no key of TARGETS, build returns {}
ValidateReject ==
    /\ pc = "validate"
    /\ InvalidTargets(target_names) # << >>
    /\ trace' = Append(trace, [ op |-> "invalid_targets",
                                names |-> InvalidTargets(target_names) ])
    /\ pc' = "returned"
    /\ UNCHANGED << host, mode, target_names, android_ndk_root, buildFS, distFS,
                    results, android_targets, ios_targets, idx, exit_code >>

\* build: every name is a key of TARGETS
ValidateAccept ==
    /\ pc = "validate"
    /\ InvalidTargets(target_names) = << >>
    /\ pc' = "loop"
    /\ UNCHANGED << host, mode, target_names, android_ndk_root, buildFS, distFS,
                    results, android_targets, ios_targets, idx, trace, exit_code >>

(***************************************************************************)
(* _build_target.  ret is "True" or "False", or "raise" when              *)
(* _setup_android_environment raises RuntimeError; cargo holds the         *)
(* invocation of the build tool, if one was made.  exit and wrote are what *)
(* the tool does when it is run, seqno numbers the invocation.             *)
(***************************************************************************)
CargoEvent(target, h, ndk, m, exit, wrote, seqno) ==
    [ op |-> "cargo", name |-> target.name, cmd |-> BuildCmd(target, m),
      env |-> IF target.platform = ANDROID THEN << AndroidEnv(h, ndk, target) >> ELSE << >>,
      exit |-> exit, wrote |-> wrote, seqno |-> seqno ]

\* a verification that trusts the exit status of the tool
VerifyBuildByExit(fs, target, m, exit) == IF exit = 0 THEN "True" ELSE "False"

\* the verification after the tool has run
VerifyBuild(fs, target, m, exit) ==
    IF exit = 0
    THEN IF LibExists(fs, target.rust_target, m, GetLibraryName(target))
         THEN "True" ELSE "False"
    ELSE "False"

\* a build that leaves the directory of the triple as it finds it
KeepPreviousBuild(fs, target) == fs

\* the clean of the previous build of the triple
CleanPreviousBuild(fs, target) == RmTargetDir(fs, target.rust_target)

BuildTarget(fs, target, h, ndk, m, exit, wrote, seqno) ==
    LET cleaned == CleanPreviousBuild(fs, target)
        built   == cleaned \cup CargoWrites(BuildCmd(target, m), wrote, seqno)
    IN  IF target.platform = ANDROID /\ ndk = "None"
        THEN [ ret |-> "False", fs |-> cleaned, cargo |-> << >> ]
        ELSE IF target.platform = ANDROID /\ ~ToolchainDirExists(h, ndk)
        THEN [ ret |-> "raise", fs |-> cleaned, cargo |-> << >> ]
        ELSE [ ret |-> VerifyBuild(built, target, m, exit), fs |-> built,
               cargo |-> << CargoEvent(target, h, ndk, m, exit, wrote, seqno) >> ]

\* the number of build tool invocations so far
CargoCount(tr) == Cardinality({ k \in 1..Len(tr) : tr[k].op = "cargo" })

\* a loop that records the targets that built only
SetResultIfBuilt(res, name, success) ==
    IF success THEN [ n \in DOMAIN res \cup { name } |-> IF n = name THEN TRUE ELSE res[n] ]
    ELSE res

\* results[target_name] = success
SetResult(res, name, success) ==
    [ n \in DOMAIN res \cup { name } |-> IF n = name THEN success ELSE res[n] ]

IsDesktop(target) == target.platform \notin { ANDROID, IOS }

\* the desktop target is packaged in the iteration that built it
PackageNow(target, success) == success /\ IsDesktop(target)

\* one iteration of the for loop of build, _build_target having returned
LoopBuild ==
    /\ pc = "loop"
    /\ \E exit \in { 0, 1 }, wrote \in BOOLEAN :
         LET name    == target_names[idx]
             target  == TARGETS[name]
             r       == BuildTarget(buildFS, target, host, android_ndk_root, mode,
                                    exit, wrote, CargoCount(trace) + 1)
             success == r.ret = "True"
         IN  /\ r.ret # "raise"
             /\ buildFS' = r.fs
             /\ results' = SetResult(results, name, success)
             /\ android_targets' = IF success /\ target.platform = ANDROID
                                   THEN Append(android_targets, target)
                                   ELSE android_targets
             /\ ios_targets' = IF success /\ target.platform = IOS
                               THEN Append(ios_targets, target)
                               ELSE ios_targets
             /\ distFS' = IF PackageNow(target, success)
                          THEN PackageTarget(distFS, r.fs, host, mode, target)
                          ELSE distFS
             /\ trace' = trace \o r.cargo
                           \o << [ op |-> "build_target", name |-> name, ret |-> r.ret ] >>
                           \o (IF PackageNow(target, success)
                               THEN << [ op |-> "package_target", name |-> name ] >>
                               ELSE << >>)
    /\ idx' = idx + 1
    /\ pc' = IF idx = Len(target_names) THEN "android" ELSE "loop"
    /\ UNCHANGED << host, mode, target_names, android_ndk_root, exit_code >>

\* one iteration of the for loop of build, _build_target raising: nothing
\* catches the RuntimeError, the interpreter ends the process with status 1
LoopRaise ==
    /\ pc = "loop"
    /\ LET name   == target_names[idx]
           target == TARGETS[name]
           r      == BuildTarget(buildFS, target, host, android_ndk_root, mode,
                                 0, FALSE, CargoCount(trace) + 1)
       IN  /\ r.ret = "raise"
           /\ buildFS' = r.fs
           /\ trace' = Append(trace, [ op |-> "build_target", name |-> name, ret |-> r.ret ])
    /\ pc' = "crashed"
    /\ exit_code' = 1
    /\ UNCHANGED << host, mode, target_names, android_ndk_root, distFS,
                    results, android_targets, ios_targets, idx >>

Names(targets) == [ k \in 1..Len(targets) |-> targets[k].name ]

\* build: the Android bundle, if android_targets is not empty
AndroidBundle ==
    /\ pc = "android"
    /\ android_targets # << >>
    /\ distFS' = PackageAndroidBundle(distFS, buildFS, host, mode, android_targets)
    /\ trace' = Append(trace, [ op |-> "android_bundle", targets |-> Names(android_targets) ])
    /\ pc' = "ios"
    /\ UNCHANGED << host, mode, target_names, android_ndk_root, buildFS,
                    results, android_targets, ios_targets, idx, exit_code >>

AndroidSkip ==
    /\ pc = "android"
    /\ android_targets = << >>
    /\ pc' = "ios"
    /\ UNCHANGED << host, mode, target_names, android_ndk_root, buildFS, distFS,
                    results, android_targets, ios_targets, idx, trace, exit_code >>

\* build: the iOS bundle, if ios_targets is not empty, and the return
IosBundle ==
    /\ pc = "ios"
    /\ ios_targets # << >>
    /\ \E device_lipo_ok \in BOOLEAN, sim_lipo_ok \in BOOLEAN :
         LET r == PackageIosBundle(distFS, buildFS, host, mode, ios_targets,
                                   device_lipo_ok, sim_lipo_ok)
         IN  /\ distFS' = r.fs
             /\ trace' = trace
                           \o << [ op |-> "ios_bundle", targets |-> Names(ios_targets) ] >>
                           \o r.lipo
                           \o << [ op |-> "ios_bundle_return", ret |-> r.ret ] >>
    /\ pc' = "returned"
    /\ UNCHANGED << host, mode, target_names, android_ndk_root, buildFS,
                    results, android_targets, ios_targets, idx, exit_code >>

IosSkip ==
    /\ pc = "ios"
    /\ ios_targets = << >>
    /\ pc' = "returned"
    /\ UNCHANGED << host, mode, target_names, android_ndk_root, buildFS, distFS,
                    results, android_targets, ios_targets, idx, trace, exit_code >>

\* success_count of main
SuccessCount(res) == Cardinality({ n \in DOMAIN res : res[n] })

\* return 0 if success_count == len(results) else 1
ExitStatus(res) == IF SuccessCount(res) = Cardinality(DOMAIN res) THEN 0 ELSE 1

\* main: the summary and the exit status
MainReport ==
    /\ pc = "returned"
    /\ exit_code' = ExitStatus(results)
    /\ pc' = "exited"
    /\ UNCHANGED << host, mode, target_names, android_ndk_root, buildFS, distFS,
                    results, android_targets, ios_targets, idx, trace >>

Next ==
    \/ MainNoTargets
    \/ MainBuild
    \/ SetupNoCargo
    \/ SetupAndClean
    \/ ValidateReject
    \/ ValidateAccept
    \/ LoopBuild
    \/ LoopRaise
    \/ AndroidBundle
    \/ AndroidSkip
    \/ IosBundle
    \/ IosSkip
    \/ MainReport

Spec == Init /\ [][Next]_vars

(***************************************************************************)
(* Vocabulary of the properties.                                           *)
(***************************************************************************)
\* build() has returned to main
BuildReturned == pc \in { "returned", "exited" }

\* the process has ended, by main returning or by an uncaught exception
RunEnded == pc \in { "exited", "crashed" }

\* the positions of the trace at which op happened
Ops(op) == { k \in 1..Len(trace) : trace[k].op = op }

Requested == Range(target_names)

UnknownRequested == Requested \ TargetNames

KnownRequested == Requested \cap TargetNames

FamilyRequested(platform) == { n \in KnownRequested : TARGETS[n].platform = platform }

\* the targets of a platform for which some _build_target call returned True
BuiltOk(platform) ==
    { trace[k].name : k \in { j \in Ops("build_target") :
          trace[j].ret = "True" /\ TARGETS[trace[j].name].platform = platform } }

\* the names _build_target was called for, in call order
Attempts ==
    LET calls == SelectSeq(trace, LAMBDA e : e.op = "build_target")
    IN  [ k \in 1..Len(calls) |-> calls[k].name ]

Last(S) == CHOOSE k \in S : \A j \in S : j <= k

NoBuildNoPackaging ==
    /\ Ops("cargo") = { }
    /\ Ops("build_target") = { }
    /\ Ops("package_target") = { }
    /\ Ops("android_bundle") = { }
    /\ Ops("ios_bundle") = { }
    /\ { e \in distFS : e.by = "run" } = { }

\* C1, as stated: for every requested batch with at least one name that is
\* not in the registry, build() rejects the whole batch: no cargo build for
\* any name, no packaging, and all unknown names of the batch are reported
\* together in one report.
C1_RejectedAndReported ==
    UnknownRequested # { } =>
        /\ NoBuildNoPackaging
        /\ results = << >>
        /\ BuildReturned =>
              /\ Cardinality(Ops("invalid_targets")) = 1
              /\ \A k \in Ops("invalid_targets") :
                    trace[k].names = Filter(target_names, UnknownRequested)

\* C1, amended: for every requested batch with at least one name that is
\* not in the registry, build() rejects the whole batch: no cargo build for
\* any name, no packaging, an empty result; when cargo is found on the host
\* all unknown names of the batch are reported together in one report (in
\* request order), and when cargo is not found build() returns before it
\* looks at the names and reports none of them.
C1_RejectedAndReportedIfCargo ==
    UnknownRequested # { } =>
        /\ NoBuildNoPackaging
        /\ results = << >>
        /\ Cardinality(Ops("invalid_targets")) <= 1
        /\ \A k \in Ops("invalid_targets") :
              trace[k].names = Filter(target_names, UnknownRequested)
        /\ BuildReturned => (Ops("invalid_targets") # { } <=> host.cargo)

\* a batch with a valid and an invalid name has been rejected with a report
C1_Witness ==
    /\ BuildReturned
    /\ UnknownRequested # { }
    /\ KnownRequested # { }
    /\ Ops("invalid_targets") # { }

\* C2: a target name is a key of the result mapping build() returns if and
\* only if it was requested and passed the registry validation (the batch
\* was validated, which takes cargo on the host, and has no unknown name);
\* no other key ever appears, whatever the outcomes of the builds.
C2_ResultKeys ==
    /\ DOMAIN results \subseteq KnownRequested
    /\ BuildReturned =>
          DOMAIN results = { n \in Requested : host.cargo /\ UnknownRequested = { } }

\* build() has returned a mapping with a built and a failed target
C2_Witness ==
    /\ pc = "returned"
    /\ \E a \in DOMAIN results, b \in DOMAIN results : results[a] /\ ~results[b]

\* C3: the exit status of main() is zero if and only if all requested
\* targets succeeded; a run in which some requested target did not end as a
\* successful build (also a batch that was never built) exits non-zero.
C3_ExitZeroIffAllSucceeded ==
    (RunEnded /\ target_names # << >>) =>
        (exit_code = 0 <=> \A n \in Requested : n \in DOMAIN results /\ results[n])

\* C4: for every batch that passed validation, a failure of one target
\* (tool exit, missing artifact, unavailable or unusable Android toolchain)
\* never aborts the batch: every requested target is attempted in request
\* order, each result is recorded and build() returns the full mapping.
C4_FailureNeverAborts ==
    (RunEnded /\ host.cargo /\ target_names # << >> /\ UnknownRequested = { }) =>
        /\ pc = "exited"
        /\ Attempts = target_names
        /\ DOMAIN results = Requested

\* the artifact cargo produces for the target, in the mode of the run, is there
ArtifactPresent(target) ==
    \E f \in buildFS : /\ f.triple = target.rust_target
                       /\ f.mode = mode
                       /\ f.file = CdylibName(target.rust_target)

\* C5: _build_target returns success if and only if the build tool exited
\* with status zero and the expected artifact exists afterwards at the
\* per-triple, per-mode path; the result is recorded as it was returned.
\* Stated of the latest call, of which buildFS is the state afterwards.
C5_SuccessIffExitZeroAndArtifact ==
    Ops("build_target") # { } =>
        LET k   == Last(Ops("build_target"))
            e   == trace[k]
            ran == k > 1 /\ trace[k - 1].op = "cargo" /\ trace[k - 1].name = e.name
        IN  e.ret # "raise" =>
               /\ e.ret = "True" <=>
                     (ran /\ trace[k - 1].exit = 0 /\ ArtifactPresent(TARGETS[e.name]))
               /\ results[e.name] = (e.ret = "True")

\* the tool exited 0 and wrote nothing, and the target is recorded as failed
C5_Witness ==
    /\ Ops("build_target") # { }
    /\ LET k == Last(Ops("build_target"))
       IN  /\ k > 1
           /\ trace[k - 1].op = "cargo"
           /\ trace[k - 1].exit = 0
           /\ ~trace[k - 1].wrote
           /\ trace[k].ret = "False"
           /\ ~results[trace[k].name]

\* C6: when the NDK locator returned absent, every requested Android target
\* is recorded as failed without a build tool invocation for it, no Android
\* bundle is produced and the exit status is non-zero; the other targets of
\* the batch are still built.
C6_NdkAbsentFailsAndroidOnly ==
    (RunEnded /\ android_ndk_root = "None" /\ FamilyRequested(ANDROID) # { }) =>
        /\ \A n \in FamilyRequested(ANDROID) : n \in DOMAIN results /\ ~results[n]
        /\ \A k \in Ops("cargo") : trace[k].name \notin FamilyRequested(ANDROID)
        /\ Ops("android_bundle") = { }
        /\ exit_code # 0
        /\ \A n \in KnownRequested \ FamilyRequested(ANDROID) :
              \E k \in Ops("cargo") : trace[k].name = n

BundleOp(platform) == IF platform = ANDROID THEN "android_bundle" ELSE "ios_bundle"

\* C7: the Android bundling call and the iOS bundling call each happen at
\* most once per run, never before the last build invocation of the run,
\* and exactly when at least one target of that family built successfully.
C7_BundlesOnceAfterLoop ==
    \A platform \in { ANDROID, IOS } :
        /\ Cardinality(Ops(BundleOp(platform))) <= 1
        /\ \A b \in Ops(BundleOp(platform)) :
              \A c \in Ops("cargo") \cup Ops("build_target") : c < b
        /\ RunEnded => (Ops(BundleOp(platform)) # { } <=> BuiltOk(platform) # { })

DesktopNames == { n \in TargetNames : TARGETS[n].platform \notin { ANDROID, IOS } }

\* the desktop targets for which some build of this run succeeded
DesktopBuilt == { n \in DesktopNames : n \in BuiltOk(TARGETS[n].platform) }

\* rvpnse-<target-name>.zip for Windows, rvpnse-<target-name>.tar.gz otherwise
DesktopArchiveOf(n) ==
    FileName(<< "rvpnse-", n >>,
             IF TARGETS[n].platform = WINDOWS THEN << "zip" >> ELSE << "tar", "gz" >>)

\* the files this run wrote to the output directory under a desktop target's name
ProducedDesktop ==
    { e \in distFS : /\ e.by = "run"
                     /\ e.kind = "file"
                     /\ \E n \in DesktopNames : e.name.base = << "rvpnse-", n >> }

\* C8: N distinct successfully built desktop targets give exactly N
\* archives in the output directory, one per target, named
\* rvpnse-<target-name> with .zip for Windows and .tar.gz otherwise and
\* holding the target's library; each is packaged right after its own build,
\* whatever the other targets did, and no staging directory
\* rvpnse-<target-name> remains.
C8_OneArchivePerDesktopTarget ==
    /\ { e.name : e \in ProducedDesktop } = { DesktopArchiveOf(n) : n \in DesktopBuilt }
    /\ Cardinality(ProducedDesktop) = Cardinality(DesktopBuilt)
    /\ \A e \in ProducedDesktop :
          \E x \in e.content :
              /\ x.file = CdylibName(TARGETS[e.name.base[2]].rust_target)
              /\ Len(x.from) = 1
              /\ x.from[1].triple = TARGETS[e.name.base[2]].rust_target
    /\ \A n \in DesktopBuilt : ~DistExists(distFS, FileName(<< "rvpnse-", n >>, << >>))
    /\ \A k \in Ops("build_target") :
          (trace[k].ret = "True" /\ trace[k].name \in DesktopNames) =>
              /\ k < Len(trace)
              /\ trace[k + 1].op = "package_target"
              /\ trace[k + 1].name = trace[k].name
    /\ \A k \in Ops("package_target") :
          /\ k > 1
          /\ trace[k - 1].op = "build_target"
          /\ trace[k - 1].name = trace[k].name
          /\ trace[k - 1].ret = "True"

\* two desktop targets were built, the second after the first was packaged,
\* and build() has returned
C8_Witness ==
    /\ BuildReturned
    /\ Cardinality(DesktopBuilt) = 2
    /\ \E n \in DesktopBuilt : TARGETS[n].platform = WINDOWS

IosDeviceTriple == "aarch64-apple-ios"

IosTriples == { TARGETS[n].rust_target : n \in { m \in TargetNames : TARGETS[m].platform = IOS } }

\* every binary of libs is an iOS binary of the wanted kind
AllOfKind(libs, device) ==
    \A k \in 1..Len(libs) :
        /\ libs[k].triple \in IosTriples
        /\ (libs[k].triple = IosDeviceTriple) = device

\* the framework directories of an entry of the output directory
FrameworkDirs(e) == { x.dir : x \in { y \in e.content : y.file = "." } }

IosArchives == { e \in distFS : e.kind = "file" /\ e.by = "run" /\ e.name = IosArchivePath }

\* the list of successful iOS targets is one device and one simulator target
OneDeviceOneSimulator ==
    /\ Len(ios_targets) = 2
    /\ \E i \in 1..2 : /\ ios_targets[i].rust_target = IosDeviceTriple
                       /\ ios_targets[3 - i].rust_target # IosDeviceTriple
    /\ \A i \in 1..2 : results[ios_targets[i].name]

\* C9: in iOS packaging the device framework is made only of binaries of
\* the device triple and the simulator framework only of binaries of the
\* other iOS triples: no merge invocation and no framework combines a
\* device with a simulator binary; a list of one device and one simulator
\* target gives exactly two framework directories.
C9_DeviceAndSimulatorApart ==
    /\ \A k \in Ops("lipo") :
          /\ trace[k].output \in { DeviceFramework, SimulatorFramework }
          /\ AllOfKind(trace[k].inputs, trace[k].output = DeviceFramework)
    /\ \A e \in distFS : \A x \in e.content :
          x.file = "rVPNSE" =>
              /\ x.dir \in { DeviceFramework, SimulatorFramework }
              /\ x.from # << >>
              /\ AllOfKind(x.from, x.dir = DeviceFramework)
    /\ (BuildReturned /\ OneDeviceOneSimulator) =>
          /\ Cardinality(IosArchives) = 1
          /\ \A e \in IosArchives :
                /\ FrameworkDirs(e) = { DeviceFramework, SimulatorFramework }
                /\ Cardinality({ x \in e.content : x.file = "rVPNSE" }) = 2

\* the bundle holds a device framework and a simulator framework that was
\* merged from the binaries of both simulators
C9_Witness ==
    /\ BuildReturned
    /\ Ops("lipo") # { }
    /\ \E e \in IosArchives :
          /\ FrameworkDirs(e) = { DeviceFramework, SimulatorFramework }
          /\ \E x \in e.content : x.dir = SimulatorFramework /\ Len(x.from) = 2

\* C10: for each non-empty iOS group (device, simulator): a group of one
\* has no merge invocation and its binary is copied as the merged output; a
\* group of more than one has exactly one merge invocation, with all of the
\* group's binary paths as inputs in request order.
C10_CopyOneMergeMany ==
    (BuildReturned /\ Ops("ios_bundle") # { }) =>
        \A device \in BOOLEAN :
            LET libs   == FoundLibs(buildFS, mode, ios_targets, device)
                fw     == IF device THEN DeviceFramework ELSE SimulatorFramework
                merges == { k \in Ops("lipo") : trace[k].output = fw }
            IN  /\ Len(libs) = 1 =>
                      /\ merges = { }
                      /\ \E e \in distFS : Member(fw, "rVPNSE", libs) \in e.content
                /\ Len(libs) > 1 =>
                      /\ Cardinality(merges) = 1
                      /\ \A k \in merges : trace[k].inputs = libs

\* the iOS bundling call of the run gave up: it returned None
IosBundleGaveUp == \E k \in Ops("ios_bundle_return") : ~trace[k].ret

\* the files this run wrote to the output directory
ProducedFiles == { e \in distFS : e.kind = "file" /\ e.by = "run" }

\* some archive of the output directory holds the framework directory with
\* a binary made of libs
FrameworkDelivered(framework, libs) ==
    \E e \in ProducedFiles : Member(framework, "rVPNSE", libs) \in e.content

\* C11: a merge failure (non-zero exit of the merge tool for one iOS group)
\* aborts only the affected bundle: the framework of the other group, the
\* Android bundle and every desktop archive of the same run are still
\* produced and are in the output directory when the run ends.
C11_MergeFailureAbortsOnlyItsBundle ==
    (RunEnded /\ IosBundleGaveUp /\ Ops("lipo") # { }) =>
        LET failed  == trace[Last(Ops("lipo"))].output
            sibling == IF failed = DeviceFramework THEN SimulatorFramework
                       ELSE DeviceFramework
            libs    == FoundLibs(buildFS, mode, ios_targets, sibling = DeviceFramework)
        IN  /\ libs # << >> => FrameworkDelivered(sibling, libs)
            /\ BuiltOk(ANDROID) # { } =>
                  \E e \in ProducedFiles : e.name = AndroidArchivePath
            /\ \A n \in DesktopBuilt :
                  \E e \in ProducedFiles : e.name = DesktopArchiveOf(n)

\* the directories of the output directory
Directories == { e \in distFS : e.kind = "dir" }

\* C12: on every packaging path (desktop, Android bundle, iOS bundle),
\* also where packaging gives up early (artifact missing, no iOS library
\* found, merge tool failure), no staging or bundle directory
\* (rvpnse-<target-name>, rvpnse-android, rvpnse-ios) is left in the output
\* directory when build() returns.
C12_NoDirectoryLeft ==
    (BuildReturned /\ Ops("clean_output") # { }) => Directories = { }

\* what a run records when it builds or packages
BuildOrPackagingOps ==
    { "cargo", "build_target", "package_target", "android_bundle", "ios_bundle" }

\* what an earlier run left in the output directory
LeftByPreviousRun == { e \in distFS : e.by = "previous" }

\* the one requested target is a desktop target and its build succeeded
OneDesktopTargetBuilt ==
    /\ Len(target_names) = 1
    /\ target_names[1] \in DesktopNames
    /\ target_names[1] \in DOMAIN results
    /\ results[target_names[1]]

\* the output directory is cleared once, before any build and any
\* packaging of the run, and a run of one desktop target that builds ends
\* with exactly its archive
ClearedFirstAndExactlyOneArchive ==
    /\ \A k \in 1..Len(trace) :
          /\ trace[k].op = "clean_output" => k = 1
          /\ trace[k].op \in BuildOrPackagingOps => trace[1].op = "clean_output"
    /\ (BuildReturned /\ OneDesktopTargetBuilt) =>
          /\ { e.name : e \in distFS } = { DesktopArchiveOf(target_names[1]) }
          /\ Cardinality(distFS) = 1

\* C13, as stated: every run of build() fully clears the output directory
\* at its start, before any build invocation and before any packaging, so
\* no file left by a previous run (archive or staging directory) is there
\* when the run ends; a run requesting one desktop target whose build
\* succeeds ends with the output directory holding exactly that archive.
C13_ClearedAtStart ==
    /\ ClearedFirstAndExactlyOneArchive
    /\ (RunEnded /\ target_names # << >>) => LeftByPreviousRun = { }

\* C13, amended: every run of build() on a host where cargo is found fully
\* clears the output directory before any build invocation and before any
\* packaging, so nothing left by a previous run is there when the run
\* ends; a run that does not find cargo returns before the clearing and
\* leaves the output directory as it found it; a run requesting one desktop
\* target whose build succeeds ends with exactly that target's archive.
C13_ClearedAtStartIfCargo ==
    /\ ClearedFirstAndExactlyOneArchive
    /\ (RunEnded /\ target_names # << >> /\ host.cargo) => LeftByPreviousRun = { }
    /\ (BuildReturned /\ ~host.cargo) => Ops("clean_output") = { }

\* a previous run had left files (one of its artifacts is still in target/),
\* and after the first target of this run the output directory holds the
\* archive of that target and nothing else
C13_Witness ==
    /\ \E f \in buildFS : f.by = 0
    /\ Ops("package_target") # { }
    /\ { e.name : e \in distFS } = { DesktopArchiveOf("linux-x64") }

\* the outcome of a run that ended with the result mapping res
OutcomeClass(res) ==
    IF \A n \in DOMAIN res : res[n] THEN "full success"
    ELSE IF \E n \in DOMAIN res : res[n] THEN "partial success"
    ELSE "total failure"

\* C14: the exit status of main() distinguishes full success, partial
\* success and total failure: a run of the same batch that ends in another
\* of these three outcomes (another result mapping over the same targets)
\* ends with another exit status.
C14_ExitCodeTellsOutcome ==
    (pc = "exited" /\ results # << >>) =>
        \A r \in [ DOMAIN results -> BOOLEAN ] :
            OutcomeClass(r) # OutcomeClass(results) => ExitStatus(r) # exit_code

RegistryTriples == { TARGETS[n].rust_target : n \in TargetNames }

\* the variable names the environment of a triple carries
NamesOf(triple) ==
    LET names == EnvVarNames(TargetUpper(Characters(triple)))
    IN  { names[v] : v \in DOMAIN names }

\* the variable names of every triple of the registry
RegistryNames == [ t \in RegistryTriples |-> NamesOf(t) ]

\* the variable names of the other triples of the registry
NamesOfOthers ==
    [ t \in RegistryTriples |-> UNION { RegistryNames[u] : u \in RegistryTriples \ { t } } ]

\* the characters the mangling leaves none of
LowerCaseAndHyphen == Range(LowerCase) \cup { "-" }

\* no lowercase letter and no hyphen is left
IsMangled(s) == \A k \in 1..Len(s) : s[k] \notin LowerCaseAndHyphen

ManglingIdempotent ==
    \A t \in RegistryTriples :
        /\ IsMangled(TargetUpper(Characters(t)))
        /\ TargetUpper(TargetUpper(Characters(t))) = TargetUpper(Characters(t))

ManglingInjective ==
    \A t1 \in RegistryTriples, t2 \in RegistryTriples :
        t1 # t2 =>
            /\ TargetUpper(Characters(t1)) # TargetUpper(Characters(t2))
            /\ RegistryNames[t1] \cap RegistryNames[t2] = { }

\* each triple has its four names, without a lowercase letter or a hyphen
FourMangledNames ==
    \A t \in RegistryTriples :
        /\ Cardinality(RegistryNames[t]) = 4
        /\ \A n \in RegistryNames[t] : IsMangled(n)

\* C15: the mangling of a triple into a variable name (uppercase, '-'
\* replaced by '_') is idempotent and injective over the registry: no two
\* distinct triples of TARGETS give the same CC_, CXX_, AR_ or
\* CARGO_TARGET_..._LINKER name, so the environment of every build tool
\* invocation for an Android target names the variables of that target's
\* triple and of no other triple of the registry.
C15_ManglingIdempotentInjective ==
    /\ ManglingIdempotent
    /\ ManglingInjective
    /\ FourMangledNames
    /\ \A k \in Ops("cargo") :
          trace[k].env # << >> =>
              LET names == trace[k].env[1].names
                  own   == { names[v] : v \in DOMAIN names }
              IN  /\ own = RegistryNames[trace[k].cmd[4]]
                  /\ own \cap NamesOfOthers[trace[k].cmd[4]] = { }

\* the build tool was run for two Android triples, each with its environment
C15_Witness ==
    \E j \in Ops("cargo"), k \in Ops("cargo") :
        /\ trace[j].env # << >>
        /\ trace[k].env # << >>
        /\ trace[j].cmd[4] # trace[k].cmd[4]
        /\ trace[j].env[1].names # trace[k].env[1].names

\* the positions of possible_paths that exist and hold the toolchain
\* subdirectory structure
QualifiedPlaces ==
    { k \in 1..Len(possible_paths) :
        /\ PathExists(host, possible_paths[k])
        /\ PrebuiltExists(host, possible_paths[k]) }

\* C16: the locator returns, first match wins: the ANDROID_NDK_ROOT
\* override when it is set and its path exists; otherwise the first of the
\* conventional places that exists and holds the toolchain subdirectory
\* structure; otherwise absent.  It never fails, and a location it returns
\* is one with which every Android target of the run is buildable as far
\* as the toolchain goes: absence is the only toolchain outcome a caller
\* meets.
C16_LocatorFirstMatchUsable ==
    /\ android_ndk_root =
          IF host.env # "unset" /\ PathExists(host, host.env) THEN host.env
          ELSE IF QualifiedPlaces # { }
               THEN possible_paths[CHOOSE k \in QualifiedPlaces :
                                       \A j \in QualifiedPlaces : k <= j]
               ELSE "None"
    /\ android_ndk_root # "None" => ToolchainDirExists(host, android_ndk_root)
    /\ \A k \in Ops("build_target") : trace[k].ret # "raise"

\* the build tool invocation of this run that wrote the file f of target/
WrittenByInvocationFor(f, triple) ==
    \E c \in Ops("cargo") :
        /\ trace[c].seqno = f.by
        /\ trace[c].wrote
        /\ trace[c].cmd[4] = triple

\* C17: _build_target removes the directory of the target's triple before
\* the build tool runs and before the artifact is looked for, so nothing a
\* previous build left there makes a build succeed or gets packaged: once
\* _build_target was called for a target nothing of a previous run is left
\* under its triple, a call that returns success finds the artifact its own
\* invocation wrote, the artifact of every target recorded successful and
\* every binary in the output directory was written by an invocation of
\* this run for its triple.
C17_StaleArtifactNeverUsed ==
    /\ \A k \in Ops("build_target") :
          \A f \in buildFS : f.triple = TARGETS[trace[k].name].rust_target => f.by # 0
    /\ Ops("build_target") # { } =>
          LET k == Last(Ops("build_target"))
              t == TARGETS[trace[k].name]
          IN  trace[k].ret = "True" =>
                 /\ k > 1
                 /\ trace[k - 1].op = "cargo"
                 /\ trace[k - 1].name = t.name
                 /\ LibExists(buildFS, t.rust_target, mode, GetLibraryName(t))
                 /\ \A f \in buildFS :
                       (f.triple = t.rust_target /\ f.mode = mode
                            /\ f.file = GetLibraryName(t)) =>
                           f.by = trace[k - 1].seqno
    /\ \A n \in DOMAIN results :
          results[n] =>
              /\ LibExists(buildFS, TARGETS[n].rust_target, mode, GetLibraryName(TARGETS[n]))
              /\ \A f \in buildFS :
                    (f.triple = TARGETS[n].rust_target /\ f.mode = mode
                         /\ f.file = GetLibraryName(TARGETS[n])) =>
                        WrittenByInvocationFor(f, TARGETS[n].rust_target)
    /\ \A e \in distFS : \A x \in e.content : \A i \in 1..Len(x.from) :
          WrittenByInvocationFor(x.from[i], x.from[i].triple)
    /\ \A e \in ProducedDesktop : \A x \in e.content : \A i \in 1..Len(x.from) :
          WrittenByInvocationFor(x.from[i], TARGETS[e.name.base[2]].rust_target)

\* a previous run had left its artifacts in target/ (that of a target not
\* yet built is still there), and a target of this run was built and
\* packaged
C17_Witness ==
    /\ \E f \in buildFS : f.by = 0
    /\ \E k \in Ops("build_target") : trace[k].ret = "True"
    /\ \E e \in ProducedFiles : \E x \in e.content : x.from # << >>

\* the archive a target of the registry is delivered in
DeliverableOf(n) ==
    IF TARGETS[n].platform = ANDROID THEN AndroidArchivePath
    ELSE IF TARGETS[n].platform = IOS THEN IosArchivePath
    ELSE DesktopArchiveOf(n)

\* the output directory holds the target's archive, with its artifact in it
Delivered(n) ==
    \E e \in ProducedFiles :
        /\ e.name = DeliverableOf(n)
        /\ \E x \in e.content : \E i \in 1..Len(x.from) :
              x.from[i].triple = TARGETS[n].rust_target

\* C18: when build() has returned, each target recorded as successful in
\* the result mapping has its artifact in an archive of the output
\* directory (its own archive for a desktop target, the bundle of its
\* family for an Android or iOS target); hence an exit status of zero says
\* that a deliverable exists for every requested target.
C18_SuccessMeansDelivered ==
    /\ BuildReturned => \A n \in DOMAIN results : results[n] => Delivered(n)
    /\ (pc = "exited" /\ exit_code = 0) =>
          \A n \in Requested : n \in TargetNames /\ Delivered(n)

RECURSIVE Dedup(_)
\* s without the repetitions: the first occurrence of every element, in order
Dedup(s) ==
    IF s = << >> THEN << >>
    ELSE << Head(s) >> \o Dedup(Filter(Tail(s), Range(Tail(s)) \ { Head(s) }))

\* the build tool did the same at every invocation for one target
FixedOutcomes ==
    \A j \in Ops("cargo"), k \in Ops("cargo") :
        trace[j].name = trace[k].name =>
            /\ trace[j].exit = trace[k].exit
            /\ trace[j].wrote = trace[k].wrote

\* the path of a file of target/
PathOf(f) == [ triple |-> f.triple, mode |-> f.mode, file |-> f.file ]

\* the distinct inputs of merge invocations, per output
DistinctInputs(merges) ==
    { [ output |-> e.output, inputs |-> { PathOf(f) : f \in Range(e.inputs) } ] :
        e \in merges }

\* C19: repeating a target name in the requested list does not change the
\* outcome: for a valid batch and a build tool that does the same at every
\* invocation for one target, the result mapping, the distinct inputs of
\* the merge invocations and the archives in the output directory are
\* those of the batch without its repetitions (whose list of successful
\* iOS targets is the one of this run without its repetitions, bundled
\* under some behaviour of the merge tool).
C19_RepeatedNameChangesNothing ==
    (BuildReturned /\ host.cargo /\ UnknownRequested = { } /\ FixedOutcomes) =>
        /\ results = [ n \in Requested |->
                         \E k \in Ops("build_target") :
                             trace[k].name = n /\ trace[k].ret = "True" ]
        /\ { e.name : e \in ProducedDesktop } = { DesktopArchiveOf(n) : n \in DesktopBuilt }
        /\ (\E e \in ProducedFiles : e.name = AndroidArchivePath) <=> BuiltOk(ANDROID) # { }
        /\ ios_targets # << >> =>
              \E device_lipo_ok \in BOOLEAN, sim_lipo_ok \in BOOLEAN :
                  LET once == PackageIosBundle({ }, buildFS, host, mode, Dedup(ios_targets),
                                               device_lipo_ok, sim_lipo_ok)
                  IN  /\ DistinctInputs({ trace[k] : k \in Ops("lipo") })
                            = DistinctInputs(Range(once.lipo))
                      /\ { e.name : e \in IosArchives }
                            = { e.name : e \in { x \in once.fs : x.kind = "file" } }

====
